---- MODULE Spec2Model ----
(***************************************************************************)
(* Model of open-port-test.py: a single-threaded HTTP/HTTPS test responder *)
(* built on socketserver.TCPServer and http.server.                        *)
(*                                                                         *)
(* Strings the program formats or parses are sequences of one-character    *)
(* strings; fixed pieces of the HTML template are single symbols.          *)
(***************************************************************************)
EXTENDS Integers, Sequences, FiniteSets, TLC

VARIABLES
    argv,       \* command line: [port : string or NoArg, ssl : BOOLEAN]
    env,        \* what the OS offers: [portFree, tls]
    host,       \* what gethostname()/gethostbyname() answer right now
    pc,         \* position of the main thread
    port,       \* args.port / the closure variable port
    use_ssl,    \* args.ssl / the closure variable use_ssl
    protocol,   \* the local variable protocol of create_test_server
    hostname,   \* the local variable hostname of create_test_server
    local_ip,   \* the local variable local_ip of create_test_server
    sock,       \* httpd.socket: [state, tls]
    backlog,    \* connections the OS has queued on the listening socket
    conns,      \* every client connection made so far, by arrival order
    cur,        \* the connection the main thread is busy with, 0 if none
    stdout,     \* lines printed with print()
    stderr,     \* lines written to sys.stderr
    exitCode,   \* exit status of the process, NoExit while it runs
    interrupted \* TRUE once KeyboardInterrupt was raised inside serve_forever

vars == <<argv, env, host, pc, port, use_ssl, protocol, hostname, local_ip,
          sock, backlog, conns, cur, stdout, stderr, exitCode, interrupted>>

\* ---------------------------------------------------------------- bounds
MaxConns == 2

\* ------------------------------------------------------- text and numbers
NoArg == <<"<absent>">>
\* port before parse_args has run, exit status while the process runs
NoPort == 0 - 100000
NoExit == 0 - 1

DigitChars == <<"0", "1", "2", "3", "4", "5", "6", "7", "8", "9">>

IsDigit(ch) == \E i \in 1..10 : DigitChars[i] = ch

DigitVal(ch) == (CHOOSE i \in 1..10 : DigitChars[i] = ch) - 1

RECURSIVE DigitsValue(_)
DigitsValue(s) ==
    IF s = <<>> THEN 0
    ELSE 10 * DigitsValue(SubSeq(s, 1, Len(s) - 1)) + DigitVal(s[Len(s)])

AllDigits(s) == s # <<>> /\ \A i \in 1..Len(s) : IsDigit(s[i])

\* int(text), as argparse applies it for type=int: an optional sign and
\* decimal digits, anything else is a ValueError.
ParseInt(s) ==
    IF AllDigits(s) THEN [ok |-> TRUE, val |-> DigitsValue(s)]
    ELSE IF s # <<>> /\ s[1] = "-" /\ AllDigits(Tail(s))
         THEN [ok |-> TRUE, val |-> 0 - DigitsValue(Tail(s))]
    ELSE IF s # <<>> /\ s[1] = "+" /\ AllDigits(Tail(s))
         THEN [ok |-> TRUE, val |-> DigitsValue(Tail(s))]
    ELSE [ok |-> FALSE, val |-> NoPort]

\* str(n) as an f-string field formats an int.
RECURSIVE ToDigits(_)
ToDigits(n) ==
    IF n < 0 THEN <<"-">> \o ToDigits(0 - n)
    ELSE IF n < 10 THEN <<DigitChars[n + 1]>>
    ELSE ToDigits(n \div 10) \o <<DigitChars[(n % 10) + 1]>>

Contains(s, sub) ==
    \E i \in 1..(Len(s) - Len(sub) + 1) : SubSeq(s, i, i + Len(sub) - 1) = sub

Last(s) == s[Len(s)]

\* ------------------------------------------------------------ environment
PortArgs ==
    { NoArg,
      <<"a", "b", "c">>,
      <<"-", "1">>,
      <<"0">>,
      <<"8", "0", "8", "0">>,
      <<"6", "5", "5", "3", "5">>,
      <<"6", "5", "5", "3", "6">> }

Hosts ==
    { [hostname |-> <<"s", "r", "v">>,
       local_ip |-> <<"1", "0", ".", "0", ".", "0", ".", "5">>],
      [hostname |-> <<"s", "r", "v">>,
       local_ip |-> <<"1", "0", ".", "0", ".", "0", ".", "6">>] }

ClientIPs ==
    { <<"1", "0", ".", "0", ".", "0", ".", "7">>,
      <<"1", "0", ".", "0", ".", "0", ".", "9">> }

NoRequest == [method |-> "-", path |-> "-"]

Requests ==
    { [method |-> "GET", path |-> "/"],
      [method |-> "GET", path |-> "/anything"],
      [method |-> "POST", path |-> "/"] }

\* key.pem/cert.pem and the ssl module as the run finds them
TlsEnvs == {"ok", "bad_material", "no_wrap_socket"}

NoHost == [hostname |-> <<>>, local_ip |-> <<>>]

NoResponse == [status |-> 0, headers |-> <<>>, body |-> <<>>]

\* ----------------------------------------------------------------- state
Init ==
    /\ argv \in [port : PortArgs, ssl : BOOLEAN]
    /\ env \in [portFree : BOOLEAN, tls : TlsEnvs]
    /\ (~argv.ssl => env.tls = "ok")
    /\ host \in Hosts
    /\ pc = "main"
    /\ port = NoPort
    /\ use_ssl = FALSE
    /\ protocol = "-"
    /\ hostname = <<>>
    /\ local_ip = <<>>
    /\ sock = [state |-> "none", tls |-> FALSE]
    /\ backlog = <<>>
    /\ conns = <<>>
    /\ cur = 0
    /\ stdout = <<>>
    /\ stderr = <<>>
    /\ exitCode = NoExit
    /\ interrupted = FALSE

\* The states of section 4.1's state machine, read off the main thread.
ServerState ==
    IF pc \in {"main", "create_test_server", "wrap_socket", "banner"}
    THEN "Starting"
    ELSE IF pc \in {"serve_forever", "get_request", "handle"}
    THEN "Listening"
    ELSE IF exitCode = 0 THEN "Stopped" ELSE "Failed"

\* An uncaught exception: traceback on stderr, exit status 1, and the OS
\* closes whatever socket the process still holds.
Die(code, lines) ==
    /\ pc' = "exited"
    /\ exitCode' = code
    /\ stderr' = stderr \o lines
    /\ sock' = IF sock.state = "none" THEN sock
               ELSE [sock EXCEPT !.state = "closed"]
    /\ backlog' = <<>>
    /\ conns' = [i \in DOMAIN conns |->
                    IF conns[i].state = "Closed" THEN conns[i]
                    ELSE [conns[i] EXCEPT !.state = "Closed", !.gone = TRUE]]
    /\ cur' = 0

\* lines 90-99: parse_args, then the four prints of __main__
ParseArgs ==
    /\ pc = "main"
    /\ LET p == ParseInt(argv.port) IN
       IF argv.port = NoArg \/ ~p.ok
       THEN /\ Die(2, <<<<"usage">>, <<"error: argument port">>>>)
            /\ UNCHANGED <<port, use_ssl, hostname, local_ip, stdout,
                           protocol>>
       ELSE /\ port' = p.val
            /\ use_ssl' = argv.ssl
            /\ stdout' = stdout \o
                 << <<"prepare">>,
                    <<"port: ">> \o ToDigits(p.val),
                    <<"ssl: ", IF argv.ssl THEN "on" ELSE "off">>,
                    <<"">> >>
            /\ pc' = "create_test_server"
            /\ UNCHANGED <<protocol, hostname, local_ip, sock, backlog, conns,
                           cur, stderr, exitCode>>
    /\ UNCHANGED <<argv, env, host, interrupted>>

\* socket.bind refuses a port outside 0..65535 with OverflowError; 0 asks
\* the OS for an ephemeral port and succeeds.
BindOverflows(p) == p < 0 \/ p > 65535

\* lines 56 / 63-64: TCPServer((bind_address, port), MyHandler) binds and
\* listens; a failure closes the socket and propagates out of the script.
CreateServer ==
    /\ pc = "create_test_server"
    /\ IF BindOverflows(port)
       THEN /\ Die(1, << <<"Traceback">>, <<"OverflowError">> >>)
            /\ UNCHANGED protocol
       ELSE IF ~env.portFree
       THEN /\ Die(1, << <<"Traceback">>, <<"OSError">> >>)
            /\ UNCHANGED protocol
       ELSE /\ sock' = [state |-> "listening", tls |-> FALSE]
            /\ pc' = IF use_ssl THEN "wrap_socket" ELSE "banner"
            /\ protocol' = IF use_ssl THEN protocol ELSE "HTTP"
            /\ UNCHANGED <<backlog, conns, cur, stderr, exitCode>>
    /\ UNCHANGED <<argv, env, host, port, use_ssl, hostname, local_ip, stdout,
                   interrupted>>

\* ssl.wrap_socket loads key.pem/cert.pem when it is called and raises
\* when they are missing, unreadable or do not match (or when the ssl
\* module has no wrap_socket at all).
WrapSocketRaisesNever(tls) == FALSE

WrapSocketRaises(tls) == tls # "ok"

\* lines 57-61
WrapSocket ==
    /\ pc = "wrap_socket"
    /\ IF WrapSocketRaises(env.tls)
       THEN /\ Die(1, << <<"Traceback">>, <<"wrap_socket">> >>)
            /\ UNCHANGED protocol
       ELSE /\ sock' = [sock EXCEPT !.tls = TRUE]
            /\ protocol' = "HTTPS"
            /\ pc' = "banner"
            /\ UNCHANGED <<backlog, conns, cur, stderr, exitCode>>
    /\ UNCHANGED <<argv, env, host, port, use_ssl, hostname, local_ip, stdout,
                   interrupted>>

bind_address == <<"0", ".", "0", ".", "0", ".", "0">>

\* lines 66-80: resolve the host, print the banner, enter serve_forever
Banner ==
    /\ pc = "banner"
    /\ hostname' = host.hostname
    /\ local_ip' = host.local_ip
    /\ stdout' = stdout \o
         << <<"started: ", protocol>>,
            <<"listen: ">> \o bind_address \o <<":">> \o ToDigits(port),
            <<"hostname: ">> \o host.hostname,
            <<"ip: ">> \o host.local_ip,
            <<"">>,
            <<"access:">>,
            <<"http://localhost:">> \o ToDigits(port),
            <<"http://">> \o host.local_ip \o <<":">> \o ToDigits(port),
            <<"">>,
            <<"press Ctrl+C">>,
            <<"-----">> >>
    /\ pc' = "serve_forever"
    /\ UNCHANGED <<argv, env, host, port, use_ssl, protocol, sock, backlog,
                   conns, cur, stderr, exitCode, interrupted>>

\* ------------------------------------------------------------ the handler
\* line 41: {"HTTPS" if use_ssl else "HTTP"}
ProtocolLabelAlwaysHttps(ssl) == <<"H", "T", "T", "P", "S">>

ProtocolLabel(ssl) ==
    IF ssl THEN <<"H", "T", "T", "P", "S">> ELSE <<"H", "T", "T", "P">>

\* lines 19-49: the f-string; the fixed HTML between two fields is one symbol
RenderBody(p, ssl, hname, lip, client_ip) ==
    <<"<html><head>..</head><body><div class=success>port ">>
        \o ToDigits(p)
        \o <<" open</div><div class=highlight><strong>hostname:</strong> ">>
        \o hname
        \o <<"<br><strong>local ip:</strong> ">>
        \o lip
        \o <<"<br><strong>listening port:</strong> ">>
        \o ToDigits(p)
        \o <<"<br><strong>protocol:</strong> ">>
        \o ProtocolLabel(ssl)
        \o <<"<br><strong>client ip:</strong> ">>
        \o client_ip
        \o <<"</div>..</body></html>">>

\* lines 16-17 and 35-42: do_GET asks the OS for the host again and reads
\* port and use_ssl from the enclosing call of create_test_server
DoGetBodyCounting(c) ==
    RenderBody(port + c, use_ssl, host.hostname, host.local_ip, conns[c].ip)

DoGetBody(c) ==
    RenderBody(port, use_ssl, host.hostname, host.local_ip, conns[c].ip)

\* line 11: send_response(code) logs the request on stderr (log_request)
LogRequestSilent(c, code) == <<>>

LogRequest(c, code) ==
    << <<"access: ">> \o conns[c].ip
          \o <<" ", conns[c].request.method, " ", conns[c].request.path,
               " ", code>> >>

\* BaseServer.handle_error, reached from serve_forever (line 83)
HandleErrorLines(c, exc) ==
    << <<"----">>,
       <<"Exception occurred during processing of request from ">>
           \o conns[c].ip,
       <<"Traceback: ", exc>>,
       <<"----">> >>

\* lines 11-13: status line, the two headers send_response adds, and the
\* header do_GET sends
DoGetHeaders ==
    << <<"Server", "SimpleHTTP">>,
       <<"Date", "now">>,
       <<"Content-type", "text/html; charset=utf-8">> >>

\* send_error(501) of handle_one_request for a method without do_<method>
UnsupportedMethodResponse ==
    [status |-> 501,
     headers |-> << <<"Server", "SimpleHTTP">>,
                    <<"Date", "now">>,
                    <<"Connection", "close">>,
                    <<"Content-Type", "text/html;charset=utf-8">> >>,
     body |-> <<"<html>..Error response..501..</html>">>]

\* serve_forever (line 83) runs the handler under "except Exception"
\* (handle_error, go on) and get_request under "except OSError" (go on)
ServerCatchesNothing(exc) == FALSE

ServerCatches(exc) ==
    exc \in {"BrokenPipeError", "ConnectionResetError", "SSLError"}

\* line 84: except KeyboardInterrupt
MainCatchesNothing(exc) == FALSE

MainCatches(exc) == exc = "KeyboardInterrupt"

\* httpd.socket.accept(): a socket wrapped at line 57 performs the TLS
\* handshake inside accept, a plain one hands the connection to the handler
AcceptedStateNoHandshake(tls) == "Serving"

AcceptedState(tls) == IF tls THEN "Handshaking" ELSE "Serving"

\* serve_forever accepts only from its own loop, between two requests
CanAcceptWhileBusy ==
    pc \in {"serve_forever", "get_request", "handle"} /\ backlog # <<>>

CanAccept == pc = "serve_forever" /\ backlog # <<>>

\* ----------------------------------------------------------- the clients
NewConn(ip) ==
    [ip |-> ip, state |-> "Accepting", hello |-> "none",
     request |-> NoRequest, gone |-> FALSE, resp |-> NoResponse,
     seen |-> NoHost, failed |-> FALSE]

\* a client connects; the OS queues it as soon as the socket listens
ClientConnect ==
    /\ sock.state = "listening"
    /\ Len(conns) < MaxConns
    /\ \E ip \in ClientIPs :
          conns' = Append(conns, NewConn(ip))
    /\ backlog' = Append(backlog, Len(conns) + 1)
    /\ UNCHANGED <<argv, env, host, pc, port, use_ssl, protocol, hostname,
                   local_ip, sock, cur, stdout, stderr, exitCode,
                   interrupted>>

\* the client being handshaken sends a TLS hello, or something else
ClientHello ==
    /\ cur # 0
    /\ conns[cur].state = "Handshaking"
    /\ conns[cur].hello = "none"
    /\ ~conns[cur].gone
    /\ \E h \in {"valid", "bad"} :
          conns' = [conns EXCEPT ![cur].hello = h]
    /\ UNCHANGED <<argv, env, host, pc, port, use_ssl, protocol, hostname,
                   local_ip, sock, backlog, cur, stdout, stderr, exitCode,
                   interrupted>>

\* the client being served sends its request line
ClientSend ==
    /\ cur # 0
    /\ conns[cur].state = "Serving"
    /\ conns[cur].request = NoRequest
    /\ ~conns[cur].gone
    /\ \E r \in Requests :
          conns' = [conns EXCEPT ![cur].request = r]
    /\ UNCHANGED <<argv, env, host, pc, port, use_ssl, protocol, hostname,
                   local_ip, sock, backlog, cur, stdout, stderr, exitCode,
                   interrupted>>

\* the client closes or resets its end
ClientDisconnect ==
    /\ cur # 0
    /\ conns[cur].state \in {"Handshaking", "Serving"}
    /\ ~conns[cur].gone
    /\ conns' = [conns EXCEPT ![cur].gone = TRUE]
    /\ UNCHANGED <<argv, env, host, pc, port, use_ssl, protocol, hostname,
                   local_ip, sock, backlog, cur, stdout, stderr, exitCode,
                   interrupted>>

\* the host is renamed or gets another address while the server runs
HostChange ==
    /\ ServerState = "Listening"
    /\ \E h \in Hosts \ {host} : host' = h
    /\ UNCHANGED <<argv, env, pc, port, use_ssl, protocol, hostname, local_ip,
                   sock, backlog, conns, cur, stdout, stderr, exitCode,
                   interrupted>>

\* ------------------------------------------------------------ serve_forever
\* line 83: select reports the listening socket readable, get_request
\* accepts the head of the backlog
Accept ==
    /\ CanAccept
    /\ LET c == Head(backlog)
           st == AcceptedState(sock.tls)
       IN /\ conns' = [conns EXCEPT ![c].state = st]
          /\ cur' = c
          /\ pc' = IF st = "Handshaking" THEN "get_request" ELSE "handle"
    /\ backlog' = Tail(backlog)
    /\ UNCHANGED <<argv, env, host, port, use_ssl, protocol, hostname,
                   local_ip, sock, stdout, stderr, exitCode, interrupted>>

\* an exception the server loop does not catch ends the script
Uncaught(exc) ==
    /\ Die(1, << <<"Traceback: ", exc>> >>)
    /\ UNCHANGED <<argv, env, host, port, use_ssl, protocol, hostname,
                   local_ip, stdout, interrupted>>

\* the connection is over and the loop goes back to select
BackToSelect(c, resp, failed, lines) ==
    /\ conns' = [conns EXCEPT ![c].state = "Closed", ![c].gone = TRUE,
                              ![c].resp = resp,
                              ![c].seen = IF resp.status = 200 THEN host
                                          ELSE NoHost,
                              ![c].failed = failed]
    /\ stderr' = stderr \o lines
    /\ cur' = 0
    /\ pc' = "serve_forever"
    /\ UNCHANGED <<argv, env, host, port, use_ssl, protocol, hostname,
                   local_ip, sock, backlog, stdout, exitCode, interrupted>>

\* line 83, still inside accept: the blocking TLS handshake ends
Handshake ==
    /\ pc = "get_request"
    /\ conns[cur].hello # "none" \/ conns[cur].gone
    /\ \/ /\ conns[cur].hello = "valid"
          /\ conns' = [conns EXCEPT ![cur].state = "Serving"]
          /\ pc' = "handle"
          /\ UNCHANGED <<argv, env, host, port, use_ssl, protocol, hostname,
                         local_ip, sock, backlog, cur, stdout, stderr,
                         exitCode, interrupted>>
       \/ /\ conns[cur].hello = "bad" \/ conns[cur].gone
          /\ IF ServerCatches("SSLError")
             THEN BackToSelect(cur, NoResponse, TRUE, <<>>)
             ELSE Uncaught("SSLError")

\* line 83, the handler: handle_one_request reads the request line and
\* dispatches; lines 10-50 for GET
HandleRequest ==
    /\ pc = "handle"
    /\ conns[cur].request # NoRequest \/ conns[cur].gone
    /\ LET c == cur
           req == conns[c].request
       IN
       \/ \* end of file instead of a request line: close quietly
          /\ req = NoRequest
          /\ BackToSelect(c, NoResponse, TRUE, <<>>)
       \/ \* connection reset while reading the request line
          /\ req = NoRequest
          /\ IF ServerCatches("ConnectionResetError")
             THEN BackToSelect(c, NoResponse, TRUE,
                               HandleErrorLines(c, "ConnectionResetError"))
             ELSE Uncaught("ConnectionResetError")
       \/ \* do_GET writes the whole response
          /\ req.method = "GET"
          /\ BackToSelect(c, [status |-> 200, headers |-> DoGetHeaders,
                              body |-> DoGetBody(c)],
                          FALSE, LogRequest(c, "200"))
       \/ \* do_GET, but the client is gone and line 50 raises
          /\ req.method = "GET"
          /\ conns[c].gone
          /\ IF ServerCatches("BrokenPipeError")
             THEN BackToSelect(c, [status |-> 200, headers |-> DoGetHeaders,
                                   body |-> <<>>],
                               TRUE,
                               LogRequest(c, "200")
                                 \o HandleErrorLines(c, "BrokenPipeError"))
             ELSE Uncaught("BrokenPipeError")
       \/ \* no do_POST: send_error(501) logs twice and answers
          /\ req.method # "GET"
          /\ BackToSelect(c, UnsupportedMethodResponse, FALSE,
                          << <<"code 501, message Unsupported method">> >>
                              \o LogRequest(c, "501"))

\* lines 84-87: Ctrl+C while serve_forever runs. The connection in hand is
\* shut down on the way out, the message is printed, server_close closes
\* the listening socket and the script ends normally.
KeyboardInterrupt ==
    /\ ServerState = "Listening"
    /\ interrupted' = TRUE
    /\ IF MainCatches("KeyboardInterrupt")
       THEN /\ stdout' = stdout \o << <<"">>, <<"server stopped">> >>
            /\ sock' = [sock EXCEPT !.state = "closed"]
            /\ conns' = [i \in DOMAIN conns |->
                           IF conns[i].state = "Closed" THEN conns[i]
                           ELSE [conns[i] EXCEPT !.state = "Closed",
                                                 !.gone = TRUE]]
            /\ backlog' = <<>>
            /\ cur' = 0
            /\ pc' = "exited"
            /\ exitCode' = 0
            /\ UNCHANGED stderr
       ELSE /\ Die(1, << <<"Traceback: ", "KeyboardInterrupt">> >>)
            /\ UNCHANGED stdout
    /\ UNCHANGED <<argv, env, host, port, use_ssl, protocol, hostname,
                   local_ip>>

ServerStep ==
    \/ ParseArgs
    \/ CreateServer
    \/ WrapSocket
    \/ Banner
    \/ Accept
    \/ Handshake
    \/ HandleRequest

Next ==
    \/ ServerStep
    \/ ClientConnect
    \/ ClientHello
    \/ ClientSend
    \/ ClientDisconnect
    \/ HostChange
    \/ KeyboardInterrupt

Spec == Init /\ [][Next]_vars

\* the main thread takes the step it can take; clients, the operator and
\* the host owe nothing
LiveSpec == Spec /\ WF_vars(ServerStep)

\* ------------------------------------------------------------ properties
HTTP == <<"H", "T", "T", "P">>
HTTPS == <<"H", "T", "T", "P", "S">>

\* header names compare without regard to case
LowerName(n) ==
    CASE n = "Content-type" -> "content-type"
      [] n = "Content-Type" -> "content-type"
      [] OTHER -> n

HasHeader(resp, name, value) ==
    \E i \in 1..Len(resp.headers) :
        /\ LowerName(resp.headers[i][1]) = LowerName(name)
        /\ resp.headers[i][2] = value

\* the response section 4.1 promises, for the connection record cn
GoodResponse(cn) ==
    /\ cn.resp.status = 200
    /\ HasHeader(cn.resp, "Content-Type", "text/html; charset=utf-8")
    /\ Contains(cn.resp.body, ToDigits(port))
    /\ Contains(cn.resp.body, cn.seen.hostname)
    /\ Contains(cn.resp.body, cn.seen.local_ip)
    /\ Contains(cn.resp.body, cn.ip)
    /\ IF use_ssl THEN Contains(cn.resp.body, HTTPS)
       ELSE Contains(cn.resp.body, HTTP) /\ ~Contains(cn.resp.body, HTTPS)

Served(c) ==
    /\ conns[c].state = "Closed"
    /\ conns[c].resp.status = 200
    /\ conns[c].resp.body # <<>>

\* C1: for every port in 1..65535 and both TLS modes, a GET request on any
\* path that a Listening server handles for a client that is still there is
\* answered with status 200, Content-Type text/html; charset=utf-8 and a body
\* holding the port, the hostname, the local IP, the client's IP and the
\* protocol label of the startup mode (HTTP and not HTTPS without TLS).
C1_GetAnswered ==
    [][\A c \in DOMAIN conns :
          ( /\ port \in 1..65535
            /\ pc = "handle" /\ cur = c
            /\ conns[c].request.method = "GET"
            /\ ~conns[c].gone
            /\ pc' # pc
            /\ ~interrupted' )
          => /\ conns'[c].request = conns[c].request
             /\ conns'[c].seen = host
             /\ GoodResponse(conns'[c])]_vars

C1_Witness ==
    \E c \in DOMAIN conns :
        /\ Served(c)
        /\ port = 8080 /\ ~use_ssl
        /\ conns[c].request = [method |-> "GET", path |-> "/anything"]
        /\ Contains(conns[c].resp.body, <<"8", "0", "8", "0">>)

\* C2: with useTLS and a certificate or key that cannot be loaded, startup
\* is fatal: the server never gets past wrapping the socket, never is
\* Listening, never accepts a connection, and once the process is gone it
\* exited non-zero and no listening socket is left.
C2_TlsFailureIsFatal ==
    (argv.ssl /\ env.tls # "ok") =>
        /\ pc \in {"main", "create_test_server", "wrap_socket", "exited"}
        /\ ServerState # "Listening"
        /\ cur = 0
        /\ \A c \in DOMAIN conns :
              /\ conns[c].state \in {"Accepting", "Closed"}
              /\ conns[c].resp = NoResponse
              /\ ~conns[c].failed
        /\ pc = "exited" =>
              /\ exitCode \notin {NoExit, 0}
              /\ sock.state # "listening"

C2_Witness ==
    /\ argv.ssl /\ env.tls = "bad_material"
    /\ pc = "exited" /\ exitCode = 1
    /\ sock.state = "closed"
    /\ Len(conns) > 0

\* C3: an interrupt while the server is Listening, idle or in the middle of
\* a connection, stops it: listening socket closed, shutdown message
\* printed last, exit status 0, every connection closed, and no connection
\* changes afterwards.
C3_InterruptStops ==
    /\ [](interrupted =>
            /\ ServerState = "Stopped"
            /\ exitCode = 0
            /\ sock.state = "closed"
            /\ Last(stdout) = <<"server stopped">>
            /\ backlog = <<>> /\ cur = 0
            /\ \A c \in DOMAIN conns : conns[c].state = "Closed")
    /\ [][interrupted => conns' = conns]_vars

C3_Witness ==
    /\ interrupted
    /\ \E c \in DOMAIN conns :
          conns[c].request # NoRequest /\ conns[c].resp = NoResponse

\* C4: a port argument that is missing, not an integer or outside 1..65535
\* never gets a server: no socket is bound, Listening is not reached, and
\* the process exits non-zero.
C4_BadPortNoServer ==
    LET p == ParseInt(argv.port) IN
    (argv.port = NoArg \/ ~p.ok \/ p.val \notin 1..65535) =>
        /\ ServerState # "Listening"
        /\ sock.state = "none"
        /\ pc = "exited" => exitCode \notin {NoExit, 0}

\* C5: a failure on one connection (the client vanished, the handshake
\* failed, writing the response raised) closes that connection only: the
\* server stays Listening, the process does not exit, the listening socket,
\* the backlog and every other connection are untouched.
FailureCase ==
    /\ cur # 0
    /\ \/ pc = "get_request"
             /\ (conns[cur].hello = "bad" \/ conns[cur].gone)
       \/ pc = "handle" /\ conns[cur].gone

C5_ConnectionFailureNotFatal ==
    [][(FailureCase /\ pc' # pc /\ ~interrupted') =>
          /\ ServerState' = "Listening"
          /\ exitCode' = NoExit
          /\ sock' = sock
          /\ backlog' = backlog
          /\ conns'[cur].state \in {"Closed", "Serving"}
          /\ \A d \in DOMAIN conns \ {cur} : conns'[d] = conns[d]]_vars

C5_Witness ==
    \E c, d \in DOMAIN conns :
        /\ c < d
        /\ conns[c].failed
        /\ Served(d)
        /\ ServerState = "Listening"

\* C6: every connection the server has taken up is eventually closed,
\* whatever its client does.
C6_NoIndefiniteBlocking ==
    \A c \in 1..MaxConns :
        (c \in DOMAIN conns /\ conns[c].state \in {"Handshaking", "Serving"})
            ~> (c \in DOMAIN conns /\ conns[c].state = "Closed")

\* a step of the handler: the request is read and the connection finished
HandlerStep == pc = "handle" /\ pc' = "serve_forever"

C8_StartupHostInfo ==
    \A c, d \in DOMAIN conns :
        (Served(c) /\ Served(d)) =>
            /\ Contains(conns[c].resp.body, hostname)
            /\ Contains(conns[c].resp.body, local_ip)
            /\ conns[c].ip = conns[d].ip
                  => conns[c].resp.body = conns[d].resp.body

\* C8, amended: the configuration is never changed once set, every response
\* shows the port and protocol label of startup and the hostname and local
\* IP the OS reports at the time of the request, and two requests from one
\* client IP get identical bodies when the OS reported the same host.
C8_ConfigImmutable ==
    /\ [](\A c, d \in DOMAIN conns :
            (Served(c) /\ Served(d)) =>
                /\ Contains(conns[c].resp.body, ToDigits(port))
                /\ Contains(conns[c].resp.body, ProtocolLabel(use_ssl))
                /\ ~use_ssl => ~Contains(conns[c].resp.body, HTTPS)
                /\ Contains(conns[c].resp.body, conns[c].seen.hostname)
                /\ Contains(conns[c].resp.body, conns[c].seen.local_ip)
                /\ (conns[c].ip = conns[d].ip /\ conns[c].seen = conns[d].seen)
                      => conns[c].resp.body = conns[d].resp.body)
    /\ [][/\ pc # "main" => (port' = port /\ use_ssl' = use_ssl)
          /\ ServerState = "Listening" =>
                <<protocol, hostname, local_ip>>'
                    = <<protocol, hostname, local_ip>>]_vars

C8_Witness ==
    \E c, d \in DOMAIN conns :
        /\ c # d
        /\ Served(c) /\ Served(d)
        /\ conns[c].ip = conns[d].ip
        /\ conns[c].seen # conns[d].seen
        /\ conns[c].resp.body # conns[d].resp.body

\* C9: a connection is Accepting, then Handshaking in TLS mode only, then
\* Serving, then Closed. With TLS nothing is Serving that did not finish a
\* handshake, without TLS nothing is ever Handshaking, and the server
\* leaves Listening only for Stopped.
C9_Lifecycle ==
    [][/\ \A c \in DOMAIN conns' \ DOMAIN conns :
             conns'[c].state = "Accepting"
       /\ \A c \in DOMAIN conns :
             /\ (conns[c].state # "Serving" /\ conns'[c].state = "Serving")
                   => IF use_ssl
                      THEN /\ conns[c].state = "Handshaking"
                           /\ conns[c].hello = "valid"
                      ELSE conns[c].state = "Accepting"
             /\ (conns[c].state # "Handshaking"
                    /\ conns'[c].state = "Handshaking")
                   => (use_ssl /\ conns[c].state = "Accepting")
             /\ conns[c].state = "Closed" => conns'[c].state = "Closed"
             /\ conns'[c].state = "Accepting"
                   => conns[c].state = "Accepting"
       /\ (ServerState = "Listening" /\ ServerState' # "Listening")
             => ServerState' = "Stopped"]_vars

C9_Witness ==
    /\ use_ssl
    /\ \E c \in DOMAIN conns : Served(c) /\ conns[c].hello = "valid"

\* C10: at most one connection is Handshaking or Serving, it is the one the
\* main thread holds, and every other connection that arrived and is not
\* Closed waits in the backlog.
Active == {c \in DOMAIN conns : conns[c].state \in {"Handshaking", "Serving"}}

C10_OneAtATime ==
    /\ Cardinality(Active) <= 1
    /\ Active = (IF cur = 0 THEN {} ELSE {cur})
    /\ \A c \in DOMAIN conns :
          conns[c].state = "Accepting"
              <=> (\E i \in 1..Len(backlog) : backlog[i] = c)

C10_Witness ==
    /\ cur # 0
    /\ conns[cur].state = "Serving"
    /\ Len(backlog) >= 1
====
